---- MODULE Spec2Model ----
(***************************************************************************)
(* A model of LAbka.cpp: Interpreter::evaluate run on one input line.      *)
(* Lexer -> buffered token vector -> recursive-descent Parser -> AST ->    *)
(* ASTNode::evaluate -> delete root.                                        *)
(*                                                                         *)
(* Characters are one-character strings; NUL stands for '\0'.  Strings     *)
(* (std::string) are sequences of characters.  Cursor positions are the    *)
(* source's 0-based size_t values, so element pos of a vector is           *)
(* tokens[pos + 1] here.                                                    *)
(***************************************************************************)
EXTENDS Integers, Sequences, FiniteSets, TLC

VARIABLES input, lpos, tokens, pc, pos, stack, heap, root, result

vars == <<input, lpos, tokens, pc, pos, stack, heap, root, result>>

(***************************************************************************)
(* Bounds of the model.                                                    *)
(***************************************************************************)
\* An input line is the concatenation of at most MaxLen lexemes.
MaxLen == 3
\* How many vector slots past the end of the token buffer a run may read
\* as arbitrary tokens; a read further out only faults.
MaxOob == 2

NUL == "NUL"

\* The pieces input lines are built from.  Adjacent pieces merge in the
\* lexer exactly as their characters do ("1","0" is the literal 10,
\* "x","1" the identifier x1, "pow","1" the identifier pow1).
Lexemes ==
    { <<"0">>, <<"1">>, <<"x">>, <<"p", "o", "w">>,
      <<"+">>, <<"-">>, <<"*">>, <<"/">>, <<"(">>, <<")">>,
      <<"=">>, <<",">>, <<" ">>, <<"#">>, <<NUL>> }

RECURSIVE Lines(_)
Lines(n) ==
    IF n = 0 THEN { <<>> }
    ELSE LET shorter == Lines(n - 1)
         IN  shorter \cup { s \o l : s \in shorter, l \in Lexemes }

\* Longer lines that are run as well: the examples of the interpreter's
\* description and a few lines around them.
Corpus ==
    { <<"8", "-", "3", "-", "2">>,
      <<"1", "6", "/", "4", "/", "2">>,
      <<"2", "+", "3", "*", "4">>,
      <<"(", "2", "+", "3", ")", "*", "4">>,
      <<"(", "1", "+", "2">>,
      <<"(", "1", "+", "2", " ", "3">>,
      <<"0", "-", "1", "/", "0">>,
      <<"1", "/", "(", "(", "0", "-", "1", ")", "*", "0", ")">>,
      <<"p", "o", "w", "(", "2", ",", "3", ")">>,
      <<"p", "o", "w", "(", "1", " ", "2", ")">>,
      <<"p", "o", "w", "(", "1", ",", ")">>,
      <<"p", "o", "w", "(", "1", ",", ")", ")">>,
      <<"m", "a", "x", "(", "x", ",", "a", "b", "s", "(", "1", ")", ")", "=">>,
      <<"1", " ", "+", "\t", "x", "1", " ", ")">>,
      <<"1", "+", "2", NUL, "#">> }

(***************************************************************************)
(* double.  A value is a sign bit with either a magnitude n/d in lowest    *)
(* terms (cls "fin"), an infinity or a NaN, so that +0 and -0 differ and   *)
(* division by a zero is what IEEE-754 makes it.  Finite results are kept  *)
(* as exact fractions: rounding to 53 bits is not modelled.                *)
(***************************************************************************)
RECURSIVE Gcd(_, _)
Gcd(a, b) == IF b = 0 THEN a ELSE Gcd(b, a % b)

Fin(neg, n, d) ==
    LET g == Gcd(n, d)
    IN  [cls |-> "fin", neg |-> neg, n |-> n \div g, d |-> d \div g]

Inf(neg) == [cls |-> "inf", neg |-> neg, n |-> 0, d |-> 1]
NaN == [cls |-> "nan", neg |-> FALSE, n |-> 0, d |-> 1]

IsZero(a) == a.cls = "fin" /\ a.n = 0

Negate(a) == IF a.cls = "nan" THEN a ELSE [a EXCEPT !.neg = ~a.neg]

\* leftValue + rightValue
fadd(a, b) ==
    IF a.cls = "nan" \/ b.cls = "nan" THEN NaN
    ELSE IF a.cls = "inf" /\ b.cls = "inf"
         THEN IF a.neg = b.neg THEN a ELSE NaN
    ELSE IF a.cls = "inf" THEN a
    ELSE IF b.cls = "inf" THEN b
    ELSE LET sa  == IF a.neg THEN 0 - a.n ELSE a.n
             sb  == IF b.neg THEN 0 - b.n ELSE b.n
             num == sa * b.d + sb * a.d
         IN  IF num = 0 THEN Fin(a.neg /\ b.neg, 0, 1)
             ELSE IF num < 0 THEN Fin(TRUE, 0 - num, a.d * b.d)
             ELSE Fin(FALSE, num, a.d * b.d)

\* leftValue - rightValue
fsub(a, b) == fadd(a, Negate(b))

\* leftValue * rightValue
fmul(a, b) ==
    LET neg == (a.neg /= b.neg)
    IN  IF a.cls = "nan" \/ b.cls = "nan" THEN NaN
        ELSE IF (a.cls = "inf" /\ IsZero(b)) \/ (IsZero(a) /\ b.cls = "inf") THEN NaN
        ELSE IF a.cls = "inf" \/ b.cls = "inf" THEN Inf(neg)
        ELSE Fin(neg, a.n * b.n, a.d * b.d)

\* leftValue / rightValue
fdiv(a, b) ==
    LET neg == (a.neg /= b.neg)
    IN  IF a.cls = "nan" \/ b.cls = "nan" THEN NaN
        ELSE IF a.cls = "inf" /\ b.cls = "inf" THEN NaN
        ELSE IF IsZero(a) /\ IsZero(b) THEN NaN
        ELSE IF a.cls = "inf" THEN Inf(neg)
        ELSE IF b.cls = "inf" THEN Fin(neg, 0, 1)
        ELSE IF IsZero(b) THEN Inf(neg)
        ELSE Fin(neg, a.n * b.d, a.d * b.n)

(***************************************************************************)
(* <cctype> in the "C" locale, on the characters an input can hold.        *)
(***************************************************************************)
Digits == <<"0", "1", "2", "3", "4", "5", "6", "7", "8", "9">>

isdigit(c) == \E i \in 1..10 : Digits[i] = c

isalpha(c) ==
    c \in { "a", "b", "c", "d", "e", "f", "g", "h", "i", "j", "k", "l", "m",
            "n", "o", "p", "q", "r", "s", "t", "u", "v", "w", "x", "y", "z",
            "A", "B", "C", "D", "E", "F", "G", "H", "I", "J", "K", "L", "M",
            "N", "O", "P", "Q", "R", "S", "T", "U", "V", "W", "X", "Y", "Z" }

isalnum(c) == isdigit(c) \/ isalpha(c)

isspace(c) == c \in { " ", "\t", "\n", "\f", "\r" }

(***************************************************************************)
(* Lexer                                                                   *)
(***************************************************************************)
Token(type, text) == [type |-> type, text |-> text]

\* input[pos]; std::string::operator[] at size() is the terminating '\0'.
currentChar(inp, p) == IF p < Len(inp) THEN inp[p + 1] ELSE NUL

\* The position skipWhitespace leaves the lexer at.
RECURSIVE skipWhitespace(_, _)
skipWhitespace(inp, p) ==
    IF isspace(currentChar(inp, p)) THEN skipWhitespace(inp, p + 1) ELSE p

\* The position after the maximal run of digits starting at p.
RECURSIVE DigitRunEnd(_, _)
DigitRunEnd(inp, p) ==
    IF isdigit(currentChar(inp, p)) THEN DigitRunEnd(inp, p + 1) ELSE p

\* The position after the maximal run of letters and digits starting at p.
RECURSIVE AlnumRunEnd(_, _)
AlnumRunEnd(inp, p) ==
    IF isalnum(currentChar(inp, p)) THEN AlnumRunEnd(inp, p + 1) ELSE p

\* A lexer call's outcome: the token, the position left, or the exception.
Lexed(tok, p) == [tok |-> tok, pos |-> p, threw |-> FALSE, what |-> <<>>]
LexThrow(p, what) ==
    [tok |-> Token("End", <<>>), pos |-> p, threw |-> TRUE, what |-> <<what>>]

number(inp, p) ==
    LET q == DigitRunEnd(inp, p)
    IN  Lexed(Token("Number", SubSeq(inp, p + 1, q)), q)

FunctionNames ==
    { <<"p", "o", "w">>, <<"a", "b", "s">>, <<"m", "a", "x">>, <<"m", "i", "n">> }

identifier(inp, p) ==
    LET q     == AlnumRunEnd(inp, p)
        value == SubSeq(inp, p + 1, q)
    IN  IF value \in FunctionNames
        THEN Lexed(Token("Function", value), q)
        ELSE Lexed(Token("Identifier", value), q)

SingleChar ==
    [type : {"Plus"}, text : {<<"+">>}] \cup [type : {"Minus"}, text : {<<"-">>}]
    \cup [type : {"Multiply"}, text : {<<"*">>}] \cup [type : {"Divide"}, text : {<<"/">>}]
    \cup [type : {"LeftParen"}, text : {<<"(">>}] \cup [type : {"RightParen"}, text : {<<")">>}]
    \cup [type : {"Assignment"}, text : {<<"=">>}] \cup [type : {"Comma"}, text : {<<",">>}]

\* InvalidCharacter as it would be if an unknown character ended the line.
InvalidCharacterEndsInput(inp, p) == Lexed(Token("End", <<>>), p)

\* default: throw std::runtime_error("Invalid character")
InvalidCharacter(inp, p) == LexThrow(p, "Invalid character")

RECURSIVE getNextToken(_, _)
getNextToken(inp, p) ==
    LET c == currentChar(inp, p)
    IN  IF c = NUL THEN Lexed(Token("End", <<>>), p)
        ELSE IF isspace(c) THEN getNextToken(inp, skipWhitespace(inp, p))
        ELSE IF isdigit(c) THEN number(inp, p)
        ELSE IF isalnum(c) THEN identifier(inp, p)
        ELSE IF \E t \in SingleChar : t.text = <<c>>
             THEN Lexed(CHOOSE t \in SingleChar : t.text = <<c>>, p + 1)
        ELSE InvalidCharacter(inp, p)

(***************************************************************************)
(* AST nodes on the free store.  heap[id] is the node `new` returned as    *)
(* id; deleted counts how often it was handed to `delete`.                 *)
(***************************************************************************)
Node(kind, value, op, left, right, name, args) ==
    [kind |-> kind, value |-> value, op |-> op, left |-> left, right |-> right,
     name |-> name, args |-> args, deleted |-> 0]

NumberNode(value) == Node("Number", value, "", 0, 0, <<>>, <<>>)
BinaryOpNode(op, left, right) == Node("BinaryOp", NaN, op, left, right, <<>>, <<>>)
VariableNode(name) == Node("Variable", NaN, "", 0, 0, name, <<>>)
FunctionCallNode(name, args) == Node("FunctionCall", NaN, "", 0, 0, name, args)

\* What an evaluate() call does: returns a double or throws.
Returns(v) == [ok |-> TRUE, v |-> v, what |-> <<>>]
Throws(what) == [ok |-> FALSE, v |-> NaN, what |-> <<what>>]

\* BinaryOpNodeApply as it would be if a zero divisor were refused.
BinaryOpNodeApplyCheckedDivide(op, leftValue, rightValue) ==
    CASE op = "+" -> Returns(fadd(leftValue, rightValue))
      [] op = "-" -> Returns(fsub(leftValue, rightValue))
      [] op = "*" -> Returns(fmul(leftValue, rightValue))
      [] op = "/" -> IF IsZero(rightValue) THEN Throws("Division by zero")
                     ELSE Returns(fdiv(leftValue, rightValue))
      [] OTHER    -> Throws("Invalid binary operator")

\* switch (op) of BinaryOpNode::evaluate
BinaryOpNodeApply(op, leftValue, rightValue) ==
    CASE op = "+" -> Returns(fadd(leftValue, rightValue))
      [] op = "-" -> Returns(fsub(leftValue, rightValue))
      [] op = "*" -> Returns(fmul(leftValue, rightValue))
      [] op = "/" -> Returns(fdiv(leftValue, rightValue))
      [] OTHER    -> Throws("Invalid binary operator")

\* VariableNodeEvaluate as it would be if an unbound variable read as 0.
VariableNodeEvaluateDefaultsToZero(name) == Returns(Fin(FALSE, 0, 1))

VariableNodeEvaluate(name) == Throws("Variable evaluation not implemented")

FunctionCallNodeEvaluate(name, args) ==
    Throws("Function call evaluation not implemented")

\* node->evaluate(), by virtual dispatch on the node's class.
RECURSIVE evaluate(_, _)
evaluate(h, id) ==
    LET node == h[id]
    IN  CASE node.kind = "Number" -> Returns(node.value)
          [] node.kind = "BinaryOp" ->
                LET leftValue == evaluate(h, node.left)
                IN  IF ~leftValue.ok THEN leftValue
                    ELSE LET rightValue == evaluate(h, node.right)
                         IN  IF ~rightValue.ok THEN rightValue
                             ELSE BinaryOpNodeApply(node.op, leftValue.v, rightValue.v)
          [] node.kind = "Variable" -> VariableNodeEvaluate(node.name)
          [] node.kind = "FunctionCall" -> FunctionCallNodeEvaluate(node.name, node.args)

\* delete node: the destructor deletes the children, then the node is freed.
RECURSIVE Delete(_, _)
RECURSIVE DeleteArgs(_, _)
DeleteArgs(h, args) ==
    IF args = <<>> THEN h ELSE DeleteArgs(Delete(h, Head(args)), Tail(args))

Delete(h, id) ==
    LET node == h[id]
        h1   == CASE node.kind = "BinaryOp" -> Delete(Delete(h, node.left), node.right)
                  [] node.kind = "FunctionCall" -> DeleteArgs(h, node.args)
                  [] OTHER -> h
    IN  [h1 EXCEPT ![id].deleted = @ + 1]

(***************************************************************************)
(* The outcome of Interpreter::evaluate.                                    *)
(***************************************************************************)
NoResult == [kind |-> "none", what |-> <<>>, v |-> NaN]
Value(v) == [kind |-> "value", what |-> <<>>, v |-> v]
\* An exception leaving evaluate; what is its what() text.
Error(what) == [kind |-> "error", what |-> what, v |-> NaN]
\* The process died on a memory fault.
Crash == [kind |-> "crash", what |-> <<>>, v |-> NaN]

(***************************************************************************)
(* Parser.  The recursion of expression/term/factor/primary is a stack of  *)
(* frames; `at` is where the frame continues.  A frame holds the locals    *)
(* of its function: node and op (expression, term), node, name and args    *)
(* (primary).  A step of the parser starts at a read of currentToken() and *)
(* runs to the next one.                                                    *)
(***************************************************************************)
Frame(fn, at) ==
    [fn |-> fn, at |-> at, node |-> 0, op |-> "", name |-> <<>>, args |-> <<>>]

\* The frames a call of factor() pushes: factor only calls primary.
factor == << Frame("primary", "start") >>
\* term() up to its first read: it calls factor().
term == << Frame("term", "first") >> \o factor
\* expression() up to its first read: it calls term().
expression == << Frame("expression", "first") >> \o term

Config == [pc |-> pc, pos |-> pos, stack |-> stack, heap |-> heap,
           root |-> root, result |-> result]

Top(c) == c.stack[Len(c.stack)]
SetTop(c, f) == [c EXCEPT !.stack[Len(c.stack)] = f]
Push(c, frames) == [c EXCEPT !.stack = c.stack \o frames]
Pop(c) == [c EXCEPT !.stack = SubSeq(c.stack, 1, Len(c.stack) - 1)]

\* void advance() { pos++; }
advance(c) == [c EXCEPT !.pos = c.pos + 1]

\* throw std::runtime_error(what): no handler inside evaluate, nothing on
\* the way out frees a node, so the call ends with the heap as it is.
Throw(c, what) ==
    [c EXCEPT !.pc = "done", !.stack = <<>>, !.result = Error(<<what>>)]

\* new T(...): the node's id.
New(c, node) == [c EXCEPT !.heap = Append(c.heap, node)]
Newest(c) == Len(c.heap)

\* `return id;` from the function whose frame is on top: the frame goes and
\* the caller continues with the value, up to its next read of currentToken().
Return(c, id) ==
    LET d == Pop(c)
    IN  IF d.stack = <<>>
        THEN \* back in Interpreter::evaluate: ASTNode* root = parser.parse();
             [d EXCEPT !.root = id, !.pc = "eval"]
        ELSE LET f == Top(d)
             IN  CASE f.at = "first" ->   \* ASTNode* node = term(); / factor();
                        SetTop(d, [f EXCEPT !.node = id, !.at = "loop"])
                   [] f.at = "rhs" ->     \* node = new BinaryOpNode(op, node, term());
                        LET e == New(d, BinaryOpNode(f.op, f.node, id))
                        IN  SetTop(e, [f EXCEPT !.node = Newest(e), !.at = "loop"])
                   [] f.at = "paren" ->   \* ASTNode* node = expression();
                        SetTop(d, [f EXCEPT !.node = id, !.at = "close"])
                   [] f.at = "arg" ->     \* args.push_back(expression());
                        SetTop(d, [f EXCEPT !.args = Append(f.args, id), !.at = "comma"])

\* The value of a digit string.
RECURSIVE DigitsValue(_)
DigitsValue(text) ==
    IF text = <<>> THEN 0
    ELSE LET last == text[Len(text)]
         IN  10 * DigitsValue(SubSeq(text, 1, Len(text) - 1))
             + (CHOOSE i \in 0..9 : Digits[i + 1] = last)

\* std::stod on a token's text: no conversion possible throws
\* std::invalid_argument, whose what() is "stod".
stod(text) ==
    IF text /= <<>> /\ \A i \in 1..Len(text) : isdigit(text[i])
    THEN Returns(Fin(FALSE, DigitsValue(text), 1))
    ELSE Throws("stod")

\* What a read of a vector slot past the end of the buffer may find: the
\* bytes there are not the vector's, so the type and the text are arbitrary.
\* End stands for every type value that no branch of the parser tests for;
\* "?" for a first character that is no operator; the empty text of a
\* Number for one std::stod cannot convert.
Garbage ==
    SingleChar
    \cup [type : {"Plus", "Minus", "Multiply", "Divide"}, text : {<<"?">>}]
    \cup [type : {"Number"}, text : {<<"1">>, <<>>}]
    \cup { Token("Identifier", <<"x">>), Token("Function", <<"p", "o", "w">>),
           Token("End", <<>>) }

\* Token currentToken() const { return tokens[pos]; } -- operator[] checks
\* no bound, so a read at pos >= size() is undefined behaviour: it yields an
\* arbitrary token here, or faults (Segfault).  Each such read is a choice of
\* its own: the nodes allocated between two reads may reuse those bytes.
currentToken(toks, p) ==
    IF p < Len(toks) THEN { toks[p + 1] }
    ELSE IF p - Len(toks) < MaxOob THEN Garbage
    ELSE {}

\* text[0]; operator[] at size() is '\0'.
FirstChar(text) == IF text = <<>> THEN NUL ELSE text[1]

\* expression(), from the test of its while loop on the token t.
expressionLoop(c, t) ==
    LET f == Top(c)
    IN  IF t.type = "Plus" \/ t.type = "Minus"
        THEN Push(SetTop(advance(c), [f EXCEPT !.op = FirstChar(t.text), !.at = "rhs"]),
                  term)
        ELSE Return(c, f.node)

\* term(), from the test of its while loop on the token t.
termLoop(c, t) ==
    LET f == Top(c)
    IN  IF t.type = "Multiply" \/ t.type = "Divide"
        THEN Push(SetTop(advance(c), [f EXCEPT !.op = FirstChar(t.text), !.at = "rhs"]),
                  factor)
        ELSE Return(c, f.node)

\* primary(), from its entry on the token t.
primary(c, t) ==
    LET f == Top(c)
    IN  CASE t.type = "Number" ->
               LET value == stod(t.text)
               IN  IF ~value.ok THEN Throw(c, "stod")
                   ELSE LET d == New(advance(c), NumberNode(value.v))
                        IN  Return(d, Newest(d))
          [] t.type = "LeftParen" ->
               Push(SetTop(advance(c), [f EXCEPT !.at = "paren"]), expression)
          [] t.type = "Identifier" ->
               LET d == New(advance(c), VariableNode(t.text))
               IN  Return(d, Newest(d))
          [] t.type = "Function" ->
               SetTop(advance(c), [f EXCEPT !.name = t.text, !.at = "lparen"])
          [] OTHER -> Throw(c, "Invalid primary expression")

\* primary(), '(' expression read: the token t has to be ')'.
primaryCloseParen(c, t) ==
    IF t.type /= "RightParen" THEN Throw(c, "Mismatched parentheses")
    ELSE Return(advance(c), Top(c).node)

\* primary(), function name read: the token t has to be '('.
primaryOpenCall(c, t) ==
    IF t.type /= "LeftParen" THEN Throw(c, "Expected '(' after function name")
    ELSE SetTop(advance(c), [Top(c) EXCEPT !.at = "args"])

\* primary(), the test of the argument loop on the token t.
primaryArguments(c, t) ==
    LET f == Top(c)
    IN  IF t.type /= "RightParen"
        THEN Push(SetTop(c, [f EXCEPT !.at = "arg"]), expression)
        ELSE LET d == New(advance(c), FunctionCallNode(f.name, f.args))
             IN  Return(d, Newest(d))

\* primary(), an argument read: a ',' on it is consumed.
primaryComma(c, t) ==
    LET f == Top(c)
    IN  IF t.type = "Comma" THEN SetTop(advance(c), [f EXCEPT !.at = "args"])
        ELSE SetTop(c, [f EXCEPT !.at = "args"])

(***************************************************************************)
(* The run of Interpreter::evaluate(input)                                  *)
(***************************************************************************)
Init ==
    /\ input \in Lines(MaxLen) \cup Corpus
    /\ lpos = 0
    /\ tokens = <<>>
    /\ pc = "lex"
    /\ pos = 0
    /\ stack = <<>>
    /\ heap = <<>>
    /\ root = 0
    /\ result = NoResult

Set(c) ==
    /\ pc' = c.pc
    /\ pos' = c.pos
    /\ stack' = c.stack
    /\ heap' = c.heap
    /\ root' = c.root
    /\ result' = c.result
    /\ UNCHANGED <<input, lpos, tokens>>

\* token = lexer.getNextToken(); with the loop's test and push_back.
NextToken ==
    /\ pc = "lex"
    /\ LET r == getNextToken(input, lpos)
       IN  /\ lpos' = r.pos
           /\ IF r.threw
              THEN pc' = "done" /\ result' = Error(r.what) /\ tokens' = tokens
              ELSE IF r.tok.type /= "End"
              THEN pc' = "lex" /\ result' = result /\ tokens' = Append(tokens, r.tok)
              ELSE pc' = "lexed" /\ result' = result /\ tokens' = tokens
    /\ UNCHANGED <<input, pos, stack, heap, root>>

\* Parser parser(tokens); parser.parse() up to the first read of a token.
Parse ==
    /\ pc = "lexed"
    /\ pc' = "parse"
    /\ pos' = 0
    /\ stack' = expression
    /\ UNCHANGED <<input, lpos, tokens, heap, root, result>>

At(fn, at) ==
    /\ pc = "parse"
    /\ Top(Config).fn = fn
    /\ Top(Config).at = at

Expression ==
    /\ At("expression", "loop")
    /\ \E t \in currentToken(tokens, pos) : Set(expressionLoop(Config, t))

Term ==
    /\ At("term", "loop")
    /\ \E t \in currentToken(tokens, pos) : Set(termLoop(Config, t))

Primary ==
    /\ At("primary", "start")
    /\ \E t \in currentToken(tokens, pos) : Set(primary(Config, t))

PrimaryCloseParen ==
    /\ At("primary", "close")
    /\ \E t \in currentToken(tokens, pos) : Set(primaryCloseParen(Config, t))

PrimaryOpenCall ==
    /\ At("primary", "lparen")
    /\ \E t \in currentToken(tokens, pos) : Set(primaryOpenCall(Config, t))

PrimaryArguments ==
    /\ At("primary", "args")
    /\ \E t \in currentToken(tokens, pos) : Set(primaryArguments(Config, t))

PrimaryComma ==
    /\ At("primary", "comma")
    /\ \E t \in currentToken(tokens, pos) : Set(primaryComma(Config, t))

\* A read of tokens[pos] past the end of the buffer faults.
Segfault ==
    /\ pc = "parse"
    /\ pos >= Len(tokens)
    /\ Set([Config EXCEPT !.pc = "done", !.stack = <<>>, !.result = Crash])

\* double result = root->evaluate();
Evaluate ==
    /\ pc = "eval"
    /\ LET r == evaluate(heap, root)
       IN  IF r.ok
           THEN Set([Config EXCEPT !.pc = "delete", !.result = Value(r.v)])
           ELSE Set([Config EXCEPT !.pc = "done", !.result = Error(r.what)])

\* delete root; return result;
DeleteRoot ==
    /\ pc = "delete"
    /\ Set([Config EXCEPT !.pc = "done", !.heap = Delete(heap, root)])

Next ==
    \/ NextToken
    \/ Parse
    \/ Expression
    \/ Term
    \/ Primary
    \/ PrimaryCloseParen
    \/ PrimaryOpenCall
    \/ PrimaryArguments
    \/ PrimaryComma
    \/ Segfault
    \/ Evaluate
    \/ DeleteRoot

Spec == Init /\ [][Next]_vars

\* The runs in which every read of tokens[pos] is inside the buffer, that is
\* the runs without undefined behaviour.  Such a run stops where the parser
\* would read past the last token.
InBounds == pos < Len(tokens)

NextDefined ==
    \/ NextToken
    \/ Parse
    \/ InBounds /\ Expression
    \/ InBounds /\ Term
    \/ InBounds /\ Primary
    \/ InBounds /\ PrimaryCloseParen
    \/ InBounds /\ PrimaryOpenCall
    \/ InBounds /\ PrimaryArguments
    \/ InBounds /\ PrimaryComma
    \/ Evaluate
    \/ DeleteRoot

SpecDefined == Init /\ [][NextDefined]_vars

(***************************************************************************)
(* The grammar of the interpreter's description, as a recogniser on token  *)
(* sequences, and the value it gives an arithmetic expression.  These are  *)
(* what the parser is compared with; they use nothing of the parser.        *)
(*   expression := term { ('+' | '-') term }                               *)
(*   term       := factor { ('*' | '/') factor }                           *)
(*   primary    := Number | '(' expression ')' | Identifier                *)
(*               | Function '(' [ expression { ',' expression } ] ')'      *)
(***************************************************************************)
Inner(s) == SubSeq(s, 2, Len(s) - 1)
Before(s, i) == SubSeq(s, 1, i - 1)
After(s, i) == SubSeq(s, i + 1, Len(s))

RECURSIVE GExpression(_)
RECURSIVE GTerm(_)
RECURSIVE GPrimary(_)
RECURSIVE GArguments(_)

GArguments(s) ==
    \/ GExpression(s)
    \/ \E i \in 2..(Len(s) - 1) :
          s[i].type = "Comma" /\ GArguments(Before(s, i)) /\ GExpression(After(s, i))

GPrimary(s) ==
    \/ Len(s) = 1 /\ s[1].type \in {"Number", "Identifier"}
    \/ /\ Len(s) >= 3
       /\ s[1].type = "LeftParen"
       /\ s[Len(s)].type = "RightParen"
       /\ GExpression(Inner(s))
    \/ /\ Len(s) >= 3
       /\ s[1].type = "Function"
       /\ s[2].type = "LeftParen"
       /\ s[Len(s)].type = "RightParen"
       /\ (Len(s) = 3 \/ GArguments(SubSeq(s, 3, Len(s) - 1)))

IsTermSplit(s, i) ==
    s[i].type \in {"Multiply", "Divide"} /\ GTerm(Before(s, i)) /\ GPrimary(After(s, i))

IsExpressionSplit(s, i) ==
    s[i].type \in {"Plus", "Minus"} /\ GExpression(Before(s, i)) /\ GTerm(After(s, i))

GTerm(s) == GPrimary(s) \/ \E i \in 2..(Len(s) - 1) : IsTermSplit(s, i)

GExpression(s) == GTerm(s) \/ \E i \in 2..(Len(s) - 1) : IsExpressionSplit(s, i)

\* An expression of integer literals, + - * / and parentheses only.
Arithmetic(s) ==
    /\ \A i \in 1..Len(s) :
          s[i].type \in {"Number", "Plus", "Minus", "Multiply", "Divide",
                         "LeftParen", "RightParen"}
    /\ GExpression(s)

\* The value of an arithmetic expression: * and / bind tighter than + and -,
\* equal precedence groups left to right, a literal n is n.
RECURSIVE RefValue(_)
RefValue(s) ==
    IF \E i \in 2..(Len(s) - 1) : IsExpressionSplit(s, i)
    THEN LET i == CHOOSE j \in 2..(Len(s) - 1) : IsExpressionSplit(s, j)
             l == RefValue(Before(s, i))
             r == RefValue(After(s, i))
         IN  IF s[i].type = "Plus" THEN fadd(l, r) ELSE fsub(l, r)
    ELSE IF \E i \in 2..(Len(s) - 1) : IsTermSplit(s, i)
    THEN LET i == CHOOSE j \in 2..(Len(s) - 1) : IsTermSplit(s, j)
             l == RefValue(Before(s, i))
             r == RefValue(After(s, i))
         IN  IF s[i].type = "Multiply" THEN fmul(l, r) ELSE fdiv(l, r)
    ELSE IF s[1].type = "LeftParen" THEN RefValue(Inner(s))
    ELSE Fin(FALSE, DigitsValue(s[1].text), 1)

\* The lexer read the whole line: it is at the end and did not throw.
LexedAll == pc /= "lex" /\ getNextToken(input, lpos) = Lexed(Token("End", <<>>), lpos)

Finished == pc = "done" /\ result.kind \in {"value", "error"}

\* C1: a well-formed arithmetic input evaluates to the value of the reference
\* evaluator (precedence of * and / over + and -, left-to-right grouping,
\* a literal n is n).
C1_ReferenceValue ==
    (pc = "done" /\ LexedAll /\ Arithmetic(tokens))
        => result = Value(RefValue(tokens))

UnclosedParen(s) ==
    /\ Len(s) >= 2
    /\ s[1].type = "LeftParen"
    /\ \E j \in 2..Len(s) :
          /\ GExpression(SubSeq(s, 2, j))
          /\ \/ j = Len(s)
             \/ s[j + 1].type \notin {"RightParen", "Plus", "Minus", "Multiply", "Divide"}

\* C2: the line lexes and opens with '(' followed by a complete expression
\* that is followed by the end of the line or by a token other than ')' (and
\* other than an operator, which would continue the expression): evaluate
\* fails with "Mismatched parentheses".
C2_MismatchedParentheses ==
    (pc = "done" /\ LexedAll /\ UnclosedParen(tokens))
        => result = Error(<<"Mismatched parentheses">>)

\* The characters the lexer has a rule for.
Recognised(c) ==
    isspace(c) \/ isalnum(c) \/ c \in {"+", "-", "*", "/", "(", ")", "=", ","}

HasInvalid(inp) == \E i \in 1..Len(inp) : ~Recognised(inp[i])

\* The 0-based position of the first character the lexer has no rule for.
FirstInvalid(inp) ==
    (CHOOSE i \in 1..Len(inp) :
        ~Recognised(inp[i]) /\ \A j \in 1..(i - 1) : Recognised(inp[j])) - 1

Carries(r, x) == \E i \in 1..Len(r.what) : r.what[i] = x

\* C3 as stated: a line with a character that is no whitespace, letter, digit
\* or one of + - * / ( ) = , fails with InvalidCharacter, and the error carries
\* the first such character.
C3_InvalidCharacterCarried ==
    (pc = "done" /\ HasInvalid(input))
        => /\ result.kind = "error"
           /\ Carries(result, "Invalid character")
           /\ Carries(result, currentChar(input, FirstInvalid(input)))

\* C3 as amended: when the first character without a lexer rule is not NUL,
\* the run never reaches the parser, allocates nothing, and ends with the
\* lexer on that character and the error "Invalid character", which carries
\* nothing else -- whatever the other characters of the line are.
C3_InvalidCharacter ==
    (HasInvalid(input) /\ currentChar(input, FirstInvalid(input)) /= NUL)
        => /\ pc \in {"lex", "done"}
           /\ heap = <<>>
           /\ pc = "done" =>
                 /\ result = Error(<<"Invalid character">>)
                 /\ lpos = FirstInvalid(input)

\* A line with a syntax error before its invalid character has failed with
\* "Invalid character".
C3_Witness ==
    /\ pc = "done"
    /\ HasInvalid(input)
    /\ result = Error(<<"Invalid character">>)
    /\ Len(tokens) = 2
    /\ tokens[1].type = "RightParen"
    /\ tokens[2].type = "Plus"

\* The nodes of the tree under id.
RECURSIVE Subtree(_, _)
Subtree(h, id) ==
    LET node == h[id]
    IN  {id} \cup
        CASE node.kind = "BinaryOp" -> Subtree(h, node.left) \cup Subtree(h, node.right)
          [] node.kind = "FunctionCall" ->
                UNION { Subtree(h, node.args[i]) : i \in 1..Len(node.args) }
          [] OTHER -> {}

Parsed == root /= 0

NotImplemented ==
    { Error(<<"Variable evaluation not implemented">>),
      Error(<<"Function call evaluation not implemented">>) }

\* C4: when the parse succeeded, evaluate fails with NotImplemented exactly
\* when the tree holds a Variable or a FunctionCall node.
C4_NotImplemented ==
    (pc = "done" /\ Parsed)
        => (result \in NotImplemented
              <=> \E id \in Subtree(heap, root) :
                     heap[id].kind \in {"Variable", "FunctionCall"})

\* "1+x" and its like: a BinaryOp over a Number and a Variable has failed
\* with NotImplemented.
C4_Witness ==
    /\ pc = "done"
    /\ Parsed
    /\ heap[root].kind = "BinaryOp"
    /\ heap[heap[root].left].kind = "Number"
    /\ heap[heap[root].right].kind = "Variable"
    /\ result = Error(<<"Variable evaluation not implemented">>)

\* A tree of Number and BinaryOp(+,-,*,/) nodes only.
ArithmeticTree(h, id) ==
    \A n \in Subtree(h, id) :
        \/ h[n].kind = "Number"
        \/ h[n].kind = "BinaryOp" /\ h[n].op \in {"+", "-", "*", "/"}

\* C5: a tree of Number and BinaryOp(+,-,*,/) nodes evaluates to a value; a
\* '/' node whose right operand is a zero yields an infinity or a NaN (the
\* positive infinity for a positive dividend over +0) and no error.
C5_DivisionByZero ==
    (pc = "done" /\ Parsed /\ ArithmeticTree(heap, root))
        => /\ result.kind = "value"
           /\ result.v = evaluate(heap, root).v
           /\ \A n \in Subtree(heap, root) :
                 (heap[n].kind = "BinaryOp" /\ heap[n].op = "/"
                    /\ IsZero(evaluate(heap, heap[n].right).v))
                 => LET l == evaluate(heap, heap[n].left).v
                        r == evaluate(heap, heap[n].right).v
                        q == evaluate(heap, n)
                    IN  /\ q.ok
                        /\ q.v.cls \in {"inf", "nan"}
                        /\ (l.cls = "fin" /\ l.n > 0 /\ ~l.neg /\ ~r.neg)
                              => q.v = Inf(FALSE)

\* "1/0" has returned the positive infinity.
C5_Witness ==
    /\ pc = "done"
    /\ Parsed
    /\ input = <<"1", "/", "0">>
    /\ result = Value(Inf(FALSE))

LeftOver(s) ==
    \E j \in 1..(Len(s) - 1) :
        /\ GExpression(SubSeq(s, 1, j))
        /\ s[j + 1].type \notin {"Plus", "Minus", "Multiply", "Divide"}

\* C6: when evaluate returns a number every token of the line was consumed,
\* and a line with tokens left over after a complete expression fails with
\* "Invalid primary expression".
C6_ConsumesAllTokens ==
    /\ (pc = "done" /\ result.kind = "value") => pos >= Len(tokens)
    /\ (pc = "done" /\ LexedAll /\ LeftOver(tokens))
          => result = Error(<<"Invalid primary expression">>)

NoPrimaryHere ==
    /\ pc = "parse"
    /\ Top(Config).fn = "primary"
    /\ Top(Config).at = "start"
    /\ \/ pos >= Len(tokens)
       \/ tokens[pos + 1].type \in {"Plus", "Minus", "Multiply", "Divide",
                                    "RightParen", "Assignment", "Comma"}

\* C7: when primary() is entered with no token left, or on an operator, ')',
\* '=' or ',', evaluate fails there with "Invalid primary expression".
C7_InvalidPrimary ==
    [][NoPrimaryHere => (pc' = "done" /\ result' = Error(<<"Invalid primary expression">>))]_vars

\* C8: the token sequence the parser works on ends with the End token, and
\* every read of the current token is at a position below its length.
\* (Every state of the parse is at a read of currentToken(), at pos.)
C8_ReadsInBounds ==
    pc = "parse"
        => /\ tokens /= <<>>
           /\ tokens[Len(tokens)].type = "End"
           /\ pos < Len(tokens)

HasFunctionCall == \E id \in 1..Len(heap) : heap[id].kind = "FunctionCall"

\* C9: a parse that built a FunctionCall node from the tokens of the line
\* consumed an expression of the grammar, in which the arguments of a call
\* are separated by one ',' each and none follows the last.
C9_ArgumentLists ==
    (Parsed /\ pos <= Len(tokens) /\ HasFunctionCall)
        => GExpression(SubSeq(tokens, 1, pos))

Children(node) ==
    CASE node.kind = "BinaryOp" -> <<node.left, node.right>>
      [] node.kind = "FunctionCall" -> node.args
      [] OTHER -> <<>>

References(id) ==
    { <<p, i>> \in (1..Len(heap)) \X (1..Len(heap)) :
        i <= Len(Children(heap[p])) /\ Children(heap[p])[i] = id }

\* C10: when evaluate finishes, with a value or an error, every node it
\* allocated was deleted exactly once; and no node is the child of two
\* parents (or twice of one).
C10_TreeLifetime ==
    /\ \A id \in 1..Len(heap) : Cardinality(References(id)) <= 1
    /\ Finished => \A id \in 1..Len(heap) : heap[id].deleted = 1

====
